---- MODULE Spec2Model ----
(***************************************************************************)
(* Model of src/src/util/manageSession.ts: the four session-pool           *)
(* operations backupSessions, restoreSessions, closeAllSessions and        *)
(* deleteAllSessions, the in-memory registry clientsArray and the          *)
(* directories they read and write.                                        *)
(*                                                                         *)
(* Node runs the code on one thread: an action is one callback, from the   *)
(* event that starts it to its next await or return.  Paths are taken with *)
(* the process working directory equal to the project root, so that        *)
(* './restore' and 'tokens' name the same directories as                   *)
(* __dirname + '/../../restore' and __dirname + '/../../tokens'.           *)
(***************************************************************************)
EXTENDS Integers, Sequences, FiniteSets, TLC

\* ------------------------------------------------------------------ bounds
MaxSession == 2     \* session identifiers 1..MaxSession
MaxContent == 2     \* distinct file contents
MaxCalls == 4       \* invocations recorded in one behaviour
MaxTeardowns == 2   \* closeAllSessions calls that may overlap (SpecTeardown)
MaxOps == 2         \* calls made one after the other (Spec)
MaxRoundTripCalls == 4  \* calls made one after the other (SpecRoundTrip)

Sessions == 1..MaxSession
Contents == 1..MaxContent
Calls == 1..MaxCalls

\* ------------------------------------------------------- directory trees
\* A directory tree is a function from the relative paths that exist to what
\* is there: 0 for a directory, c \in Contents for a file holding c.  The
\* path << >> is the directory itself, so a directory that does not exist is
\* the function with no path.  The entry named s at the top is a file (in
\* the Token Store, the token file of session s); the entry named 0 is a
\* subdirectory, which may hold a file 1.  The User Data Tree has one file
\* name at the top, the subdirectory and the file below it.
Root == << >>
SubDir == <<0>>
SubFile == <<0, 1>>
TopFile == <<1>>
TokenPaths == {Root} \cup {<<n>> : n \in Sessions} \cup {SubDir, SubFile}
UserDataPaths == {Root, TopFile, SubDir, SubFile}
NoDir == [p \in {} |-> 0]
EmptyTree == [p \in {Root} |-> 0]

Parent(p) == SubSeq(p, 1, Len(p) - 1)
WellFormed(t) ==
    \A p \in DOMAIN t :
        /\ (t[p] = 0) <=> (p \in {Root, SubDir})
        /\ Len(p) > 0 => Parent(p) \in DOMAIN t
Trees(paths) ==
    UNION {{t \in [D -> 0..MaxContent] : WellFormed(t)} : D \in SUBSET paths}
TokenTrees == Trees(TokenPaths)
UserDataTrees == Trees(UserDataPaths)
\* The trees all of whose files hold the content 1.
Flat(trees) == {t \in trees : \A p \in DOMAIN t : t[p] \in {0, 1}}

IsPrefix(p, q) == Len(p) <= Len(q) /\ SubSeq(q, 1, Len(p)) = p
Restrict(t, D) == [p \in D |-> t[p]]
FilesOf(t) == {p \in DOMAIN t : t[p] # 0}

\* fs.existsSync and fs.readdirSync on a directory,
\* fs.lstatSync(..).isDirectory() on one of its children.
existsSync(t) == Root \in DOMAIN t
readdirSync(t) == {p \in DOMAIN t : Len(p) = 1}
isDirectory(t, p) == t[p] = 0

\* ------------------------------------------------------------- registry
\* clientsArray maps a session identifier to a client handle.  A handle is
\* [gen, status]: gen tells the handles of one session apart (0 before any
\* restart), status is the flag closeAllSessions tests.
None == [gen |-> -1, status |-> FALSE]
Handles(g) == [gen : {g}, status : BOOLEAN]

VARIABLES
    registry,      \* clientsArray: Sessions -> handle or None
    running,       \* <<session, gen>> of the browser processes still running
    tokens,        \* the Token Store directory
    userData,      \* config.customUserDataDir
    backupFolder,  \* the staging directory of backupSessions
    restoreDir,    \* ./restore: [tokens, userDataDir], each a tree or NoDir
    zipFile,       \* backupSessions.zip
    inv,           \* the invocations, in the order they were started
    calls,         \* how many invocations have been started
    closing,       \* close() requests in flight
    restarts,      \* how many times startAllSessions has been invoked
    downloaded     \* the archive the caller last received from a backup

vars == <<registry, running, tokens, userData, backupFolder, restoreDir,
          zipFile, inv, calls, closing, restarts, downloaded>>

fsVars == <<tokens, userData, backupFolder, restoreDir, zipFile>>

\* A zip archive: its two top-level entries, each a tree (NoDir: no entry).
\* state is "absent" (no such file), "open" (created, still being written)
\* or "complete".
Archive(t, u) == [state |-> "complete", tokens |-> t, userDataDir |-> u]
NoArchive == [state |-> "absent", tokens |-> NoDir, userDataDir |-> NoDir]
OpenArchive == [state |-> "open", tokens |-> NoDir, userDataDir |-> NoDir]
\* An uploaded file (Express.Multer.File), or no file at all.  The declared
\* content type is a sequence of characters, or missing (hasMime = FALSE).
NoFile == [present |-> FALSE, hasMime |-> FALSE, mimetype |-> << >>,
           archive |-> NoArchive]
Upload(mimetype, archive) ==
    [present |-> TRUE, hasMime |-> TRUE, mimetype |-> mimetype,
     archive |-> archive]
UploadNoMime(archive) ==
    [present |-> TRUE, hasMime |-> FALSE, mimetype |-> << >>,
     archive |-> archive]
NoLog == [phase |-> "none", srcTokens |-> NoDir, srcUserData |-> NoDir,
          preTokens |-> NoDir, preUserData |-> NoDir,
          postTokens |-> NoDir, postUserData |-> NoDir,
          uTargets |-> {}, tTargets |-> {}, uListed |-> FALSE, fault |-> FALSE,
          tFault |-> "none", staged |-> NoDir]
Idle ==
    [op |-> "none", pc |-> "idle", names |-> {}, result |-> "none",
     torn |-> FALSE, keysAtReturn |-> {}, restartsAtReturn |-> 0,
     removed |-> {}, activeAtEnum |-> {},
     closeRequested |-> {}, closeThrew |-> {},
     promise |-> "none", archiveFailed |-> FALSE, produced |-> NoArchive,
     file |-> NoFile, steps |-> <<>>, log |-> NoLog]

\* ------------------------------------------------ external collaborators
\* getAllTokens: the identifiers of the persisted sessions, derived from
\* the Token Store.
getAllTokens ==
    {s \in Sessions : <<s>> \in DOMAIN tokens}

\* ----------------------------------------------------- closeAllSessions
\* An operation is invoked: the synchronous part up to `await getAllTokens`.
Invoke(k, op, file) ==
    /\ k = calls + 1
    /\ k \in Calls
    /\ calls' = k
    /\ inv' = [inv EXCEPT ![k] = [Idle EXCEPT !.op = op, !.pc = "getAllTokens",
                                              !.file = file]]

\* The handles names.forEach finds with a truthy status.
Active(names) == {s \in names : registry[s] # None /\ registry[s].status}

\* The identifiers whose callback names.forEach runs.  Every callback is an
\* async function whose body sits in try/catch, so a close() that throws
\* ends that callback only.
ProcessedUntilThrow(names, threw) ==
    {s \in names : \A t \in threw : s <= t}
ProcessedAllKeys(names, threw) ==
    names \cup {s \in Sessions : registry[s] # None}
Processed(names, threw) == names

\* The identifiers deleted from clientsArray before close() is awaited
\* (line 120).  Without that line only the callbacks that skip the await
\* would reach the delete of line 125 at once.
DeletedAfterClose(processed) == processed \ Active(processed)
DeletedBeforeClose(processed) == processed

\* getAllTokens resolves and names.forEach runs every callback up to its
\* await: the identifier is deleted, and close() is called on a handle with
\* status; a call in `threw` throws synchronously and is caught.  Then the
\* 500 ms timer is set.
CloseAllForEachAs(k, names, threw) ==
    LET processed == Processed(names, threw)
        deleted == DeletedBeforeClose(processed)
    IN  /\ inv[k].pc = "getAllTokens"
        /\ threw \subseteq Active(names)
        /\ registry' = [s \in Sessions |->
                            IF s \in deleted THEN None ELSE registry[s]]
        /\ closing' = closing \cup
                {[inv |-> k, session |-> s, gen |-> registry[s].gen] :
                    s \in Active(processed) \ threw}
        /\ inv' = [inv EXCEPT ![k].pc = "grace", ![k].names = names,
                              ![k].removed = deleted,
                              ![k].activeAtEnum = Active(names),
                              ![k].closeRequested = Active(processed),
                              ![k].closeThrew = threw]
        /\ UNCHANGED <<running, fsVars, calls, restarts, downloaded>>

CloseAllForEach(k) ==
    /\ inv[k].pc = "getAllTokens"
    /\ \E threw \in SUBSET Sessions : CloseAllForEachAs(k, getAllTokens, threw)

\* close() resolves: the browser process has ended, and the callback
\* deletes the identifier once more (line 125).
CloseResolve(t) ==
    /\ t \in closing
    /\ closing' = closing \ {t}
    /\ running' = running \ {<<t.session, t.gen>>}
    /\ registry' = [registry EXCEPT ![t.session] = None]
    /\ UNCHANGED <<fsVars, inv, calls, restarts, downloaded>>

\* close() rejects: the catch block logs, the second delete is skipped.  The
\* browser process is taken to be still running.
CloseReject(t) ==
    /\ t \in closing
    /\ closing' = closing \ {t}
    /\ UNCHANGED <<registry, running, fsVars, inv, calls, restarts, downloaded>>

\* The 500 ms timer fires and closeAllSessions returns to its caller.
Returned(r) ==
    [r EXCEPT !.torn = TRUE,
              !.keysAtReturn = {s \in Sessions : registry[s] # None},
              !.restartsAtReturn = restarts]

\* closeAllSessions invoked on its own.
InvokeCloseAll(k) ==
    /\ Invoke(k, "closeAllSessions", NoFile)
    /\ UNCHANGED <<registry, running, fsVars, closing, restarts, downloaded>>

\* `await new Promise((resolve) => setTimeout(resolve, 500))` (line 130) is
\* over when the timer fires; the promises of the forEach callbacks are
\* dropped, so no close() is waited for.
GraceOverWhenClosed(k) ==
    inv[k].pc = "grace" /\ ~\E t \in closing : t.inv = k
GraceOver(k) == inv[k].pc = "grace"

CloseAllReturn(k) ==
    /\ inv[k].op = "closeAllSessions"
    /\ GraceOver(k)
    /\ inv' = [inv EXCEPT ![k] = [Returned(inv[k]) EXCEPT !.pc = "done",
                                                         !.result = "success"]]
    /\ UNCHANGED <<registry, running, fsVars, calls, closing, restarts, downloaded>>

\* ------------------------------------------------------ startAllSessions
\* startAllSessions(config, logger): repopulates the registry from the Token
\* Store `tok`; a session that has no entry gets a new handle with a running
\* browser.
StartAllSessions(tok) ==
    LET fresh == {s \in Sessions : <<s>> \in DOMAIN tok /\ registry[s] = None}
    IN  /\ restarts' = restarts + 1
        /\ registry' = [s \in Sessions |->
                            IF s \in fresh
                            THEN [gen |-> restarts + 1, status |-> TRUE]
                            ELSE registry[s]]
        /\ running' = running \cup {<<s, restarts + 1>> : s \in fresh}

\* ---------------------------------------------------------------- cpSync
\* fs.cpSync(src, dest, {force, recursive: true}): throws when src does not
\* exist; otherwise every path of src is copied, and a file that dest already
\* has is overwritten only with force.
cpSyncForced(src, dest, force) ==
    [ok |-> existsSync(src),
     tree |-> IF ~existsSync(src) THEN dest
              ELSE [p \in DOMAIN src \cup DOMAIN dest |->
                        IF p \in DOMAIN src THEN src[p] ELSE dest[p]]]
cpSync(src, dest, force) ==
    [ok |-> existsSync(src),
     tree |-> IF ~existsSync(src) THEN dest
              ELSE [p \in DOMAIN src \cup DOMAIN dest |->
                        IF p \in DOMAIN src /\ (force \/ p \notin DOMAIN dest)
                        THEN src[p] ELSE dest[p]]]

\* ------------------------------------------------------- backupSessions
InvokeBackup(k) ==
    /\ Invoke(k, "backupSessions", NoFile)
    /\ UNCHANGED <<registry, running, fsVars, closing, restarts, downloaded>>

\* closeAllSessions returns and the executor runs to its end (lines 33-69):
\* the output file is created, the Token Store is queued for the archive, the
\* User Data Tree is copied to the staging directory, the staging directory
\* is queued and finalize() is called.  When cpSync throws, the executor ends
\* there: the promise stays pending and the archive is never finalized.
BackupBody(k) ==
    LET cp == cpSync(userData, backupFolder, TRUE)
    IN  /\ inv[k].op = "backupSessions"
        /\ inv[k].pc = "grace"
        /\ zipFile' = OpenArchive
        /\ backupFolder' = cp.tree
        /\ inv' = [inv EXCEPT ![k] =
                [Returned(inv[k]) EXCEPT
                    !.pc = IF cp.ok THEN "archiving" ELSE "threw",
                    !.promise = "pending",
                    !.steps = IF cp.ok THEN <<"copy", "finalize">> ELSE << >>,
                    !.log = [NoLog EXCEPT !.phase = "export",
                                          !.srcTokens = tokens,
                                          !.srcUserData = userData,
                                          !.staged = cp.tree]]]
        /\ UNCHANGED <<registry, running, tokens, userData, restoreDir, calls,
                       closing, restarts, downloaded>>

\* The archiver reads the two queued directories and the output stream
\* flushes the archive to disk.  A queued directory that is not there makes
\* the archiver emit 'error' first.
ArchiveWrite(k) ==
    /\ inv[k].pc = "archiving"
    /\ \/ existsSync(tokens) /\ existsSync(backupFolder)
       \/ inv[k].promise = "rejected"
    /\ zipFile' = Archive(tokens, backupFolder)
    /\ inv' = [inv EXCEPT ![k].pc = "written",
                          ![k].steps = Append(inv[k].steps, "flush")]
    /\ UNCHANGED <<registry, running, tokens, userData, backupFolder,
                   restoreDir, calls, closing, restarts, downloaded>>

\* The archiver emits 'error' (lines 39-42): the promise is rejected.
\* Whether the archiver goes on to finalize after that is up to the library.
ArchiveError(k) ==
    /\ inv[k].pc = "archiving"
    /\ inv[k].promise = "pending"
    /\ \E goesOn \in BOOLEAN :
          inv' = [inv EXCEPT ![k].promise = "rejected",
                             ![k].archiveFailed = TRUE,
                             ![k].result = "error",
                             ![k].pc = IF goesOn THEN "archiving" ELSE "aborted"]
    /\ UNCHANGED <<registry, running, fsVars, calls, closing, restarts,
                   downloaded>>

\* output 'close' (lines 54-59): the staging directory is deleted and the
\* archive file is piped to the response.  rmSync without force throws when
\* the staging directory is not there.
OutputClose(k) ==
    /\ inv[k].pc = "written"
    /\ backupFolder' = NoDir
    /\ inv' = [inv EXCEPT
            ![k].pc = IF existsSync(backupFolder) THEN "streaming" ELSE "threw",
            ![k].steps = IF existsSync(backupFolder)
                         THEN Append(inv[k].steps, "cleanup") ELSE inv[k].steps]
    /\ UNCHANGED <<registry, running, tokens, userData, restoreDir, zipFile,
                   calls, closing, restarts, downloaded>>

\* The read stream of the archive file exists from the 'close' handler on.
ReadStreamOpenEarly(k) == inv[k].pc \in {"archiving", "written", "streaming"}
ReadStreamOpen(k) == inv[k].pc = "streaming"

\* The promise of backupSessions after the 'end' handler: the handler calls
\* startAllSessions and res.end(), and `resolve` is called nowhere.
PromiseResolvedOnEnd(p) == IF p = "pending" THEN "resolved" ELSE p
PromiseAfterEnd(p) == p

\* myStream 'end' (lines 60-64): the caller has the whole file,
\* startAllSessions is invoked and the response is ended.  The promise is
\* left as it is.
StreamEnd(k) ==
    /\ ReadStreamOpen(k)
    /\ downloaded' = zipFile
    /\ StartAllSessions(tokens)
    /\ inv' = [inv EXCEPT ![k].pc = "done",
                          ![k].promise = PromiseAfterEnd(inv[k].promise),
                          ![k].result = IF inv[k].result = "none"
                                        THEN "streamed" ELSE inv[k].result,
                          ![k].steps = inv[k].steps \o <<"stream", "restart">>,
                          ![k].produced = zipFile]
    /\ UNCHANGED <<fsVars, calls, closing>>

\* myStream 'error' (lines 65-68): the promise is rejected.
StreamError(k) ==
    /\ ReadStreamOpen(k)
    /\ inv' = [inv EXCEPT ![k].pc = "done", ![k].promise = "rejected",
                          ![k].result = "error"]
    /\ UNCHANGED <<registry, running, fsVars, calls, closing, restarts,
                   downloaded>>

\* ------------------------------------------------------ restoreSessions
\* s.includes(sub) on sequences of characters.
includes(s, sub) ==
    \E i \in 1..(Len(s) - Len(sub) + 1) : SubSeq(s, i, i + Len(sub) - 1) = sub

\* file?.mimetype?.includes('zip') (line 77).
ValidUploadAny(file) == file.present
ValidUpload(file) ==
    file.present /\ file.hasMime /\ includes(file.mimetype, <<"z", "i", "p">>)

\* restoreSessions is called: it throws at once on a file that is not a zip
\* (lines 77-79), else goes on to await closeAllSessions.
InvokeRestore(k, file) ==
    /\ IF ValidUpload(file)
       THEN Invoke(k, "restoreSessions", file)
       ELSE /\ k = calls + 1
            /\ k \in Calls
            /\ calls' = k
            /\ inv' = [inv EXCEPT ![k] =
                    [Idle EXCEPT !.op = "restoreSessions", !.pc = "done",
                                 !.result = "error", !.file = file]]
    /\ UNCHANGED <<registry, running, fsVars, closing, restarts, downloaded>>

\* What the caller of restoreSessions has when the extraction has been set
\* up: `return { success: true }` (line 112) runs in the same callback, the
\* 'close' handler of the extraction runs in a later one.
AckWithheld == "none"
AckOnSchedule == "success"

\* closeAllSessions returns, the extraction is set up (lines 84-87) and
\* restoreSessions returns {success: true}.
RestoreSchedule(k) ==
    /\ inv[k].op = "restoreSessions"
    /\ inv[k].pc = "grace"
    /\ inv' = [inv EXCEPT ![k] =
            [Returned(inv[k]) EXCEPT !.pc = "extracting",
                                    !.result = AckOnSchedule,
                                    !.steps = <<"ack">>]]
    /\ UNCHANGED <<registry, running, fsVars, calls, closing, restarts,
                   downloaded>>

\* unzipper.Extract({path: './restore'}) writes the entries of the archive
\* into the extraction directory, over what is there.
Extracted(dir, archive) ==
    [tokens |-> cpSync(archive.tokens, dir.tokens, TRUE).tree,
     userDataDir |-> cpSync(archive.userDataDir, dir.userDataDir, TRUE).tree]

Extract(k) ==
    /\ inv[k].pc = "extracting"
    /\ inv[k].file.archive.state = "complete"
    /\ restoreDir' = Extracted(restoreDir, inv[k].file.archive)
    /\ inv' = [inv EXCEPT ![k].pc = "extracted"]
    /\ UNCHANGED <<registry, running, tokens, userData, backupFolder, zipFile,
                   calls, closing, restarts, downloaded>>

\* Whether the 'close' handler goes on after a cpSync: each cpSync sits in
\* its own try whose catch only logs (lines 93-95, 105-107).
CatchRethrows(ok) == ok
CatchGoesOn(ok) == TRUE

\* extract 'close' (lines 87-110): the two merges, each in its own try, then
\* startAllSessions.
ExtractClose(k) ==
    LET t == cpSync(restoreDir.tokens, tokens, TRUE)
        uRuns == CatchGoesOn(t.ok)
        u == IF uRuns THEN cpSync(restoreDir.userDataDir, userData, FALSE)
             ELSE [ok |-> FALSE, tree |-> userData]
        restartRuns == uRuns /\ CatchGoesOn(u.ok)
    IN  /\ inv[k].pc = "extracted"
        /\ tokens' = t.tree
        /\ userData' = u.tree
        /\ IF restartRuns THEN StartAllSessions(t.tree)
           ELSE UNCHANGED <<registry, running, restarts>>
        /\ inv' = [inv EXCEPT
                ![k].pc = "done",
                ![k].steps =
                    inv[k].steps
                    \o <<IF t.ok THEN "tokens" ELSE "tokens failed">>
                    \o (IF ~uRuns THEN << >>
                        ELSE <<IF u.ok THEN "userDataDir"
                               ELSE "userDataDir failed">>)
                    \o (IF restartRuns THEN <<"restart">> ELSE << >>),
                ![k].log = [NoLog EXCEPT
                                !.phase = "merged",
                                !.srcTokens = restoreDir.tokens,
                                !.srcUserData = restoreDir.userDataDir,
                                !.preTokens = tokens, !.preUserData = userData,
                                !.postTokens = t.tree, !.postUserData = u.tree]]
        /\ UNCHANGED <<backupFolder, restoreDir, zipFile, calls, closing,
                       downloaded>>

\* ---------------------------------------------------- deleteAllSessions
InvokeDeleteAll(k) ==
    /\ Invoke(k, "deleteAllSessions", NoFile)
    /\ UNCHANGED <<registry, running, fsVars, closing, restarts, downloaded>>

\* The children of a store that a loop over `items` tries to delete: in the
\* User Data Tree every child (lines 148-154), in the Token Store only the
\* children that are not directories (line 187).
UserDataTargets(t, items) == items
TokenTargetsAll(t, items) == items
TokenTargets(t, items) == {p \in items : ~isDirectory(t, p)}

\* The tree left when the children in `gone` have been deleted: a directory
\* with everything below it (rmSync, recursive), a file alone (unlinkSync).
DeletedFilesOnly(t, gone) ==
    Restrict(t, {q \in DOMAIN t : q \notin gone \/ t[q] = 0})
Deleted(t, gone) ==
    Restrict(t, {q \in DOMAIN t : \A p \in gone : ~IsPrefix(p, q)})

\* What the function reports when the Token Store loop ended with or
\* without an exception reaching the outer catch (lines 210-226).
Result(threw) == IF threw THEN "error" ELSE "success"

\* Whether the Token Store phase throws (lines 182-209): readdirSync and
\* lstatSync are called only behind existsSync, so a directory that is not
\* there throws nothing; `fault` is the call that throws on one that is.
TokenPhaseThrewOnMissing(t, fault) == ~existsSync(t) \/ fault # "none"
TokenPhaseThrew(t, fault) == existsSync(t) /\ fault # "none"

\* closeAllSessions returns and the rest of deleteAllSessions runs, all of it
\* synchronous.  uFault and tFault say which directory-level call throws
\* ("readdir", or for the Token Store "lstat" after the children in tBefore
\* have been handled), uFail and tFail the children whose deletion throws.
DeleteAllBodyAs(k, uFault, uFail, tFault, tBefore, tFail) ==
    LET uItems == IF existsSync(userData) /\ uFault = "none"
                  THEN readdirSync(userData) ELSE {}
        uTargets == UserDataTargets(userData, uItems)
        uGone == uTargets \ uFail
        tItems == IF existsSync(tokens) /\ tFault # "readdir"
                  THEN readdirSync(tokens) ELSE {}
        tReached == IF tFault = "lstat" THEN tBefore ELSE tItems
        tTargets == TokenTargets(tokens, tReached)
        tGone == tTargets \ tFail
        threw == TokenPhaseThrew(tokens, tFault)
    IN  /\ inv[k].op = "deleteAllSessions"
        /\ inv[k].pc = "grace"
        /\ uFault = "readdir" => existsSync(userData)
        /\ uFail \subseteq uTargets
        /\ tFault # "none" => existsSync(tokens)
        /\ tFault = "lstat" => tBefore \subseteq tItems /\ tBefore # tItems
        /\ tFault # "lstat" => tBefore = {}
        /\ tFail \subseteq tTargets
        /\ userData' = Deleted(userData, uGone)
        /\ tokens' = Deleted(tokens, tGone)
        /\ inv' = [inv EXCEPT ![k] =
                [Returned(inv[k]) EXCEPT
                    !.pc = "done",
                    !.result = Result(threw),
                    !.log = [phase |-> "purged",
                             srcTokens |-> NoDir, srcUserData |-> NoDir,
                             preTokens |-> tokens, preUserData |-> userData,
                             postTokens |-> tokens', postUserData |-> userData',
                             uTargets |-> uTargets, tTargets |-> tTargets,
                             uListed |-> (uFault = "none"),
                             fault |-> (uFault # "none" \/ tFault # "none"
                                        \/ uFail # {} \/ tFail # {}),
                             tFault |-> tFault, staged |-> NoDir]]]
        /\ UNCHANGED <<registry, running, backupFolder, restoreDir, zipFile,
                       calls, closing, restarts, downloaded>>

DeleteAllBody(k) ==
    /\ inv[k].op = "deleteAllSessions"
    /\ inv[k].pc = "grace"
    /\ \E uFault \in {"none", "readdir"}, tFault \in {"none", "readdir", "lstat"} :
       \E uFail \in SUBSET readdirSync(userData) :
       \E tBefore \in IF tFault = "lstat" THEN SUBSET readdirSync(tokens) ELSE {{}} :
       \E tFail \in SUBSET readdirSync(tokens) :
           DeleteAllBodyAs(k, uFault, uFail, tFault, tBefore, tFail)

\* The caller has the answer of every invocation it made.
AllReturned == \A j \in Calls : inv[j].op # "none" => inv[j].result # "none"

\* ---------------------------------------------------------------- states
InitBase ==
    /\ backupFolder = NoDir
    /\ restoreDir = [tokens |-> NoDir, userDataDir |-> NoDir]
    /\ zipFile = NoArchive
    /\ inv = [k \in Calls |-> Idle]
    /\ calls = 0
    /\ closing = {}
    /\ restarts = 0
    /\ downloaded = NoArchive

InitRegistry ==
    /\ registry \in [Sessions -> {None} \cup Handles(0)]
    /\ running = {<<s, 0>> : s \in {x \in Sessions : registry[x] # None}}

\* Teardown alone: any registry, any set of token files.
InitTeardown ==
    /\ InitBase
    /\ InitRegistry
    /\ tokens \in {t \in Flat(TokenTrees) : SubDir \notin DOMAIN t}
    /\ userData = EmptyTree

NextTeardown ==
    \/ \E k \in Calls : calls < MaxTeardowns /\ InvokeCloseAll(k)
    \/ \E k \in Calls : CloseAllForEach(k)
    \/ \E t \in closing : CloseResolve(t)
    \/ \E t \in closing : CloseReject(t)
    \/ \E k \in Calls : CloseAllReturn(k)

SpecTeardown == InitTeardown /\ [][NextTeardown]_vars

\* The same with the timers of Node firing: a timer that has been set
\* fires.  Nothing is assumed of close(), which may never settle.
SpecTeardownTimers ==
    SpecTeardown /\ \A k \in Calls : WF_vars(CloseAllReturn(k))

\* Purge called once and then once more, one call after the other, from any
\* content of the two stores, with no session loaded.
InitPurge ==
    /\ InitBase
    /\ registry = [s \in Sessions |-> None]
    /\ running = {}
    /\ tokens \in Flat(TokenTrees)
    /\ userData \in Flat(UserDataTrees)

NextPurge ==
    \/ \E k \in 1..2 : AllReturned /\ InvokeDeleteAll(k)
    \/ \E k \in Calls : CloseAllForEach(k)
    \/ \E k \in Calls : DeleteAllBody(k)

SpecPurge == InitPurge /\ [][NextPurge]_vars

\* One restoreSessions call with any upload, from any content of the two
\* stores with token files of the sessions 1 and 2 at most, with session 1
\* loaded.
FullTokens == [p \in {Root, <<1>>, SubDir, SubFile} |-> IF p \in {Root, SubDir} THEN 0 ELSE 1]
FullUserData == [p \in UserDataPaths |-> IF p \in {Root, SubDir} THEN 0 ELSE 1]
SampleArchives ==
    {Archive(t, u) : t \in {NoDir, FullTokens}, u \in {NoDir, FullUserData}}
TextPlain == <<"t", "e", "x", "t", "/", "p", "l", "a", "i", "n">>
ApplicationZip == <<"a", "p", "p", "l", "i", "c", "a", "t", "i", "o", "n", "/",
                    "z", "i", "p">>
XZipCompressed == <<"a", "p", "p", "l", "i", "c", "a", "t", "i", "o", "n", "/",
                    "x", "-", "z", "i", "p", "-", "c", "o", "m", "p", "r", "e",
                    "s", "s", "e", "d">>
UpperZip == <<"a", "p", "p", "l", "i", "c", "a", "t", "i", "o", "n", "/",
              "Z", "I", "P">>
\* A file declared a zip that holds the first part of an archive only.
TruncatedUpload == Upload(ApplicationZip, OpenArchive)
Uploads(archives) ==
    {NoFile, TruncatedUpload} \cup {UploadNoMime(a) : a \in archives}
    \cup {Upload(m, a) : m \in {TextPlain, ApplicationZip, XZipCompressed, UpperZip},
                         a \in archives}

InitRestore ==
    /\ InitBase
    /\ registry = [s \in Sessions |->
                      IF s = 1 THEN [gen |-> 0, status |-> TRUE] ELSE None]
    /\ running = {<<1, 0>>}
    /\ tokens \in {t \in TokenTrees :
                        \A s \in Sessions : s > 2 => <<s>> \notin DOMAIN t}
    /\ userData \in UserDataTrees

NextRestore ==
    \/ \E k \in 1..1, file \in Uploads(SampleArchives) : InvokeRestore(k, file)
    \/ \E k \in Calls : CloseAllForEach(k)
    \/ \E t \in closing : CloseResolve(t)
    \/ \E t \in closing : CloseReject(t)
    \/ \E k \in Calls : RestoreSchedule(k)
    \/ \E k \in Calls : Extract(k)
    \/ \E k \in Calls : ExtractClose(k)

SpecRestore == InitRestore /\ [][NextRestore]_vars

\* The server after start-up: session 1 is loaded when its token file is in
\* the Token Store, session 2 may be loaded without a token file (it has not
\* been authenticated yet); the User Data Tree directory may not have been
\* created yet.  Callers invoke backup, restore and purge,
\* each call made when the answer to the one before has arrived; a restore
\* uploads the archive last downloaded or a sample archive; no deletion fails
\* in a purge.
OneToken == [p \in {Root, <<1>>} |-> IF p = Root THEN 0 ELSE 1]
Init ==
    /\ InitBase
    /\ tokens \in {EmptyTree, OneToken}
    /\ userData \in {NoDir, EmptyTree, FullUserData}
    /\ registry \in {r \in [Sessions -> {None, [gen |-> 0, status |-> TRUE]}] :
                        \A s \in Sessions :
                            /\ s = 1 => (r[s] # None <=> <<s>> \in DOMAIN tokens)
                            /\ s > 2 => r[s] = None}
    /\ running = {<<s, 0>> : s \in {x \in Sessions : registry[x] # None}}

ZipUploads ==
    {Upload(ApplicationZip, a) :
        a \in {x \in {Archive(FullTokens, FullUserData), downloaded} :
                    x.state = "complete"}}

DeleteAllNoFault(k) == DeleteAllBodyAs(k, "none", {}, "none", {}, {})

Next ==
    \/ \E k \in Calls : calls < MaxOps /\ AllReturned /\ InvokeBackup(k)
    \/ \E k \in Calls : calls < MaxOps /\ AllReturned /\ InvokeDeleteAll(k)
    \/ \E k \in Calls, file \in ZipUploads :
            calls < MaxOps /\ AllReturned /\ InvokeRestore(k, file)
    \/ \E k \in Calls : CloseAllForEach(k)
    \/ \E t \in closing : CloseResolve(t)
    \/ \E t \in closing : CloseReject(t)
    \/ \E k \in Calls : BackupBody(k)
    \/ \E k \in Calls : ArchiveWrite(k)
    \/ \E k \in Calls : ArchiveError(k)
    \/ \E k \in Calls : OutputClose(k)
    \/ \E k \in Calls : StreamEnd(k)
    \/ \E k \in Calls : StreamError(k)
    \/ \E k \in Calls : RestoreSchedule(k)
    \/ \E k \in Calls : Extract(k)
    \/ \E k \in Calls : ExtractClose(k)
    \/ \E k \in Calls : DeleteAllNoFault(k)

Spec == Init /\ [][Next]_vars

\* Export and import one after the other: up to MaxRoundTripCalls calls, each
\* made when the one before has run to its end; no session is loaded at the
\* start, and nothing fails.
OneFile == [p \in {Root, TopFile} |-> IF p = Root THEN 0 ELSE 1]
Quiet == \A j \in Calls : inv[j].pc \in {"idle", "done"}

InitRoundTrip ==
    /\ InitBase
    /\ tokens \in {EmptyTree, OneToken, FullTokens}
    /\ userData \in {EmptyTree, OneFile, FullUserData}
    /\ registry = [s \in Sessions |-> None]
    /\ running = {}

RoundTripUploads ==
    {Upload(ApplicationZip, a) :
        a \in {x \in {Archive(OneToken, OneFile), downloaded} :
                    x.state = "complete"}}

NextRoundTrip ==
    \/ \E k \in Calls : calls < MaxRoundTripCalls /\ Quiet /\ InvokeBackup(k)
    \/ \E k \in Calls : calls < MaxRoundTripCalls /\ Quiet /\ InvokeDeleteAll(k)
    \/ \E k \in Calls, file \in RoundTripUploads :
            calls < MaxRoundTripCalls /\ Quiet /\ InvokeRestore(k, file)
    \/ \E k \in Calls : CloseAllForEachAs(k, getAllTokens, {})
    \/ \E t \in closing : CloseResolve(t)
    \/ \E k \in Calls : BackupBody(k)
    \/ \E k \in Calls : ArchiveWrite(k)
    \/ \E k \in Calls : OutputClose(k)
    \/ \E k \in Calls : StreamEnd(k)
    \/ \E k \in Calls : RestoreSchedule(k)
    \/ \E k \in Calls : Extract(k)
    \/ \E k \in Calls : ExtractClose(k)
    \/ \E k \in Calls : DeleteAllNoFault(k)

SpecRoundTrip == InitRoundTrip /\ [][NextRoundTrip]_vars

\* Two backupSessions calls that may overlap: the second may be made at any
\* time, as two HTTP requests may.
InitOverlap ==
    /\ InitBase
    /\ tokens \in {EmptyTree, OneToken}
    /\ userData \in {OneFile, FullUserData}
    /\ registry = [s \in Sessions |->
                      IF <<s>> \in DOMAIN tokens
                      THEN [gen |-> 0, status |-> TRUE] ELSE None]
    /\ running = {<<s, 0>> : s \in {x \in Sessions : registry[x] # None}}

NextOverlap ==
    \/ \E k \in 1..2 : InvokeBackup(k)
    \/ \E k \in Calls : CloseAllForEach(k)
    \/ \E t \in closing : CloseResolve(t)
    \/ \E t \in closing : CloseReject(t)
    \/ \E k \in Calls : BackupBody(k)
    \/ \E k \in Calls : ArchiveWrite(k)
    \/ \E k \in Calls : ArchiveError(k)
    \/ \E k \in Calls : OutputClose(k)
    \/ \E k \in Calls : StreamEnd(k)
    \/ \E k \in Calls : StreamError(k)

SpecOverlap == InitOverlap /\ [][NextOverlap]_vars

\* ================================================================ claims

\* C1: when closeAllSessions returns, the registry holds none of the
\* identifiers that getAllTokens enumerated, whichever close calls threw
\* and whichever are still pending.
C1_RegistryDrained ==
    \A k \in Calls :
        inv[k].torn => inv[k].names \cap inv[k].keysAtReturn = {}

\* A teardown has returned in which one close call threw and another is
\* still pending.
C1_Witness ==
    \E k \in Calls :
        /\ inv[k].torn
        /\ inv[k].closeThrew # {}
        /\ \E t \in closing : t.inv = k

\* C2: once closeAllSessions has returned, and until startAllSessions adds
\* entries again, no key of the registry maps to a handle whose browser
\* process is still running.
C2_NoLiveHandleLeft ==
    \A k \in Calls :
        (inv[k].torn /\ restarts = inv[k].restartsAtReturn) =>
            \A s \in Sessions :
                registry[s] # None => <<s, registry[s].gen>> \notin running

\* C3: closeAllSessions returns normally, and a close call that fails
\* keeps no other enumerated identifier from being removed nor any other
\* active handle from being asked to close.
C3_FailuresContained ==
    \A k \in Calls :
        /\ inv[k].pc \in {"grace", "done"} =>
                /\ inv[k].removed = inv[k].names
                /\ inv[k].closeRequested = inv[k].activeAtEnum
        /\ (inv[k].op = "closeAllSessions" /\ inv[k].pc = "done") =>
                inv[k].result = "success"

\* closeAllSessions has returned after one close call threw while another
\* handle was asked to close as well.
C3_Witness ==
    \E k \in Calls :
        /\ inv[k].op = "closeAllSessions"
        /\ inv[k].pc = "done"
        /\ inv[k].closeThrew # {}
        /\ inv[k].closeRequested \ inv[k].closeThrew # {}

\* C13: in closeAllSessions every identifier whose handle is asked to close
\* has been removed from the registry first: the handles asked to close are
\* among the identifiers removed, and while a close request is in flight
\* its identifier is not in the registry.
C13_RemovedBeforeClose ==
    /\ \A k \in Calls : inv[k].closeRequested \subseteq inv[k].removed
    /\ \A t \in closing : registry[t.session] = None

\* A close request is in flight during the grace period, the browser still
\* running, while another close call of the same teardown threw.
C13_Witness ==
    \E t \in closing :
        /\ inv[t.inv].pc = "grace"
        /\ <<t.session, t.gen>> \in running
        /\ inv[t.inv].closeThrew # {}

\* C14: once getAllTokens has answered, closeAllSessions returns to its
\* caller when the 500 ms timer fires, also when a close request never
\* settles.
C14_ReturnsAfterGrace ==
    \A k \in Calls : (inv[k].pc = "grace") ~> (inv[k].pc = "done")

\* closeAllSessions has returned while a close request it made is still in
\* flight and the browser still running.
C14_Witness ==
    \E t \in closing :
        /\ inv[t.inv].op = "closeAllSessions"
        /\ inv[t.inv].pc = "done"
        /\ <<t.session, t.gen>> \in running

\* C8: deleteAllSessions leaves every subdirectory of the Token Store and
\* all below it in place and tries to delete only files there, while in the
\* User Data Tree every child that readdirSync listed is a target, and a
\* directory goes with all below it.
C8_TokenSubdirsKept ==
    \A k \in Calls :
        inv[k].log.phase = "purged" =>
            LET l == inv[k].log IN
            /\ \A p \in DOMAIN l.preTokens :
                    (Len(p) >= 1 /\ isDirectory(l.preTokens, <<p[1]>>)) =>
                        /\ p \in DOMAIN l.postTokens
                        /\ l.postTokens[p] = l.preTokens[p]
            /\ \A p \in l.tTargets : ~isDirectory(l.preTokens, p)
            /\ \A p \in DOMAIN l.preTokens \ DOMAIN l.postTokens :
                    Len(p) = 1 /\ ~isDirectory(l.preTokens, p)
            /\ l.uListed => l.uTargets = readdirSync(l.preUserData)
            /\ \A p \in l.uTargets : \A q \in DOMAIN l.postUserData :
                    IsPrefix(p, q) => p \in DOMAIN l.postUserData

\* A purge has run on a Token Store with a file at the top and a file in a
\* subdirectory and on a User Data Tree with a file in a subdirectory: the
\* token file and the whole User Data Tree content are gone, the Token
\* Store subdirectory is still there.
C8_Witness ==
    \E k \in Calls :
        /\ inv[k].log.phase = "purged"
        /\ SubFile \in DOMAIN inv[k].log.preTokens
        /\ SubFile \in DOMAIN inv[k].log.preUserData
        /\ inv[k].log.postUserData = EmptyTree
        /\ DOMAIN inv[k].log.postTokens = {Root, SubDir, SubFile}
        /\ DOMAIN inv[k].log.preTokens # DOMAIN inv[k].log.postTokens

\* The second of two deleteAllSessions calls in succession.
SecondPurge ==
    /\ inv[1].op = "deleteAllSessions"
    /\ inv[2].op = "deleteAllSessions"
    /\ inv[2].pc = "done"

SecondPurgeIdle ==
    /\ inv[2].result = "success"
    /\ inv[2].log.uTargets = {}
    /\ inv[2].log.tTargets = {}
    /\ inv[2].log.postTokens = inv[2].log.preTokens
    /\ inv[2].log.postUserData = inv[2].log.preUserData

C10_SuccessMeansCleared ==
    \A k \in Calls :
        (inv[k].log.phase = "purged" /\ inv[k].result = "success") =>
            /\ readdirSync(inv[k].log.postUserData) = {}
            /\ \A p \in readdirSync(inv[k].log.postTokens) :
                    isDirectory(inv[k].log.postTokens, p)

\* A purge that ran while the Token Store or the User Data Tree was not
\* there: the missing store is left as it is and nothing in it is a target,
\* and every child that was listed in the other store is handled (a target,
\* or a Token Store subdirectory that is skipped).
PurgedWithMissing(k) ==
    /\ inv[k].log.phase = "purged"
    /\ ~existsSync(inv[k].log.preTokens) \/ ~existsSync(inv[k].log.preUserData)

MissingTreatedAsClear(k) ==
    LET l == inv[k].log IN
    /\ ~existsSync(l.preTokens) =>
            /\ l.tTargets = {} /\ l.postTokens = NoDir
            /\ l.uListed => l.uTargets = readdirSync(l.preUserData)
    /\ ~existsSync(l.preUserData) =>
            /\ l.uTargets = {} /\ l.postUserData = NoDir
            /\ l.tFault = "none" =>
                    l.tTargets = {p \in readdirSync(l.preTokens) :
                                        ~isDirectory(l.preTokens, p)}

\* C11 as stated: when the Token Store or the User Data Tree does not exist
\* as deleteAllSessions runs, the missing store is treated as clear, the
\* other store is still processed and the call returns success.
C11_MissingStoreIsClear ==
    \A k \in Calls :
        PurgedWithMissing(k) =>
            MissingTreatedAsClear(k) /\ inv[k].result = "success"

\* C11 amended: the same, with success returned unless readdirSync or
\* lstatSync throws on a Token Store that is there.
C11_MissingStoreIsClearUnlessTokenFault ==
    \A k \in Calls :
        PurgedWithMissing(k) =>
            /\ MissingTreatedAsClear(k)
            /\ inv[k].log.tFault = "none" => inv[k].result = "success"
            /\ inv[k].result = "error" => existsSync(inv[k].log.preTokens)

\* A purge has returned success with no Token Store directory, after
\* deleting the whole content of a User Data Tree that had a subdirectory.
C11_Witness ==
    \E k \in Calls :
        /\ inv[k].log.phase = "purged"
        /\ inv[k].result = "success"
        /\ ~existsSync(inv[k].log.preTokens)
        /\ SubFile \in DOMAIN inv[k].log.preUserData
        /\ inv[k].log.postUserData = EmptyTree

\* C12: once the archive writer has raised an error in a backupSessions
\* run, the promise of that run is rejected and the run neither opens the
\* read stream of the archive file nor streams it nor invokes
\* startAllSessions.
HasStep(k, step) == \E i \in 1..Len(inv[k].steps) : inv[k].steps[i] = step

C12_NoStreamAfterArchiveError ==
    \A k \in Calls :
        inv[k].archiveFailed =>
            /\ inv[k].promise = "rejected"
            /\ ~ReadStreamOpen(k)
            /\ ~HasStep(k, "stream")
            /\ ~HasStep(k, "restart")

\* C4: restoreSessions called with no file, or with a file whose content
\* type does not contain 'zip', fails at once: no teardown is started, and
\* the registry, the Token Store, the User Data Tree, the extraction
\* directory and the count of restarts are as they were.
DeclaresZip(file) ==
    file.present /\ file.hasMime /\ file.mimetype \in {ApplicationZip, XZipCompressed}

C4_RejectedBeforeTeardown ==
    [][\A k \in Calls :
          (inv'[k].op = "restoreSessions" /\ ~DeclaresZip(inv'[k].file)) =>
              /\ inv'[k].pc = "done"
              /\ inv'[k].result = "error"
              /\ ~inv'[k].torn
              /\ inv'[k].names = {}
              /\ inv[k].op = "none" =>
                    UNCHANGED <<registry, running, fsVars, closing, restarts>>]_vars

\* A file declared text/plain has been refused while a session was loaded
\* and both stores had content.
C4_Witness ==
    \E k \in Calls :
        /\ inv[k].op = "restoreSessions"
        /\ inv[k].result = "error"
        /\ inv[k].file.present /\ inv[k].file.mimetype = TextPlain
        /\ inv[k].file.archive.state = "complete"
        /\ registry[1] # None
        /\ FilesOf(tokens) # {} /\ FilesOf(userData) # {}

ExportOrder == <<"copy", "finalize", "flush", "cleanup", "stream", "restart">>

\* C5: in every run of backupSessions the steps come in the order copy to
\* staging, finalize, flush to disk, staging deleted, archive streamed,
\* restart; so startAllSessions is invoked by a run only after that run's
\* archive has been flushed and streamed.
C5_ExportOrder ==
    \A k \in Calls :
        inv[k].op = "backupSessions" =>
            /\ Len(inv[k].steps) <= Len(ExportOrder)
            /\ inv[k].steps = SubSeq(ExportOrder, 1, Len(inv[k].steps))

\* A backup has run through all its steps.
C5_Witness ==
    \E k \in Calls :
        inv[k].op = "backupSessions" /\ inv[k].steps = ExportOrder

\* C6: restoring the archive that a backup produced into two empty stores
\* gives stores that hold exactly the files the backup was taken from, with
\* the same contents.
C6_RoundTrip ==
    \A b \in Calls, r \in Calls :
        ( /\ inv[b].op = "backupSessions"
          /\ inv[b].produced.state = "complete"
          /\ b < r
          /\ inv[r].op = "restoreSessions"
          /\ inv[r].log.phase = "merged"
          /\ inv[r].file.archive = inv[b].produced
          /\ FilesOf(inv[r].log.preTokens) = {}
          /\ FilesOf(inv[r].log.preUserData) = {} ) =>
            /\ FilesOf(inv[r].log.postTokens) = FilesOf(inv[b].log.srcTokens)
            /\ \A p \in FilesOf(inv[b].log.srcTokens) :
                    inv[r].log.postTokens[p] = inv[b].log.srcTokens[p]
            /\ FilesOf(inv[r].log.postUserData) = FilesOf(inv[b].log.srcUserData)
            /\ \A p \in FilesOf(inv[b].log.srcUserData) :
                    inv[r].log.postUserData[p] = inv[b].log.srcUserData[p]

\* C7: after the merge of restoreSessions, a path that the live store and
\* the extracted archive both have holds the archive's content in the Token
\* Store and the live content in the User Data Tree; a path that only one of
\* them has is there with that one's content.
MergedFrom(post, src, pre, archiveWins) ==
    /\ DOMAIN post = DOMAIN src \cup DOMAIN pre
    /\ \A p \in DOMAIN src \cap DOMAIN pre :
            post[p] = IF archiveWins THEN src[p] ELSE pre[p]
    /\ \A p \in DOMAIN src \ DOMAIN pre : post[p] = src[p]
    /\ \A p \in DOMAIN pre \ DOMAIN src : post[p] = pre[p]

C7_AsymmetricMerge ==
    \A k \in Calls :
        inv[k].log.phase = "merged" =>
            LET l == inv[k].log IN
            /\ MergedFrom(l.postTokens, l.srcTokens, l.preTokens, TRUE)
            /\ MergedFrom(l.postUserData, l.srcUserData, l.preUserData, FALSE)

\* A merge in which both stores had a file that the archive has with another
\* content, and the Token Store one file more and one file less than the
\* archive.
C7_Witness ==
    \E k \in Calls :
        LET l == inv[k].log IN
        /\ l.phase = "merged"
        /\ \E p \in FilesOf(l.srcTokens) \cap FilesOf(l.preTokens) :
                l.srcTokens[p] # l.preTokens[p]
        /\ \E p \in FilesOf(l.srcUserData) \cap FilesOf(l.preUserData) :
                l.srcUserData[p] # l.preUserData[p]
        /\ FilesOf(l.srcTokens) \ FilesOf(l.preTokens) # {}
        /\ FilesOf(l.preTokens) \ FilesOf(l.srcTokens) # {}

\* C15: when the 'close' handler of the extraction has run, the Token Store
\* merge was attempted once, then the User Data Tree merge once, then
\* startAllSessions was invoked once, whichever of the two merges failed;
\* before the handler runs no restart has been made.
C15_MergesThenRestart ==
    \A k \in Calls :
        inv[k].op = "restoreSessions" =>
            /\ inv[k].log.phase = "merged" =>
                    /\ inv[k].steps =
                            <<"ack",
                              IF existsSync(inv[k].log.srcTokens)
                              THEN "tokens" ELSE "tokens failed",
                              IF existsSync(inv[k].log.srcUserData)
                              THEN "userDataDir" ELSE "userDataDir failed",
                              "restart">>
                    /\ restarts = 1
            /\ inv[k].log.phase # "merged" =>
                    /\ restarts = 0
                    /\ ~HasStep(k, "restart")

\* The handler has run with no `tokens` entry extracted and a `userDataDir`
\* entry that was merged: the first merge failed, the second was made, and
\* the restart followed.
C15_Witness ==
    \E k \in Calls :
        /\ inv[k].log.phase = "merged"
        /\ ~existsSync(inv[k].log.srcTokens)
        /\ FilesOf(inv[k].log.srcUserData) # {}
        /\ FilesOf(inv[k].log.srcUserData) \subseteq FilesOf(userData)
        /\ FilesOf(inv[k].log.preUserData) = {}
        /\ restarts = 1

\* C16: restoreSessions has returned {success: true} in every state in
\* which its extraction is under way or complete, so before the 'close'
\* handler of the extraction, the two merges and the restart; it has also
\* returned it when the extraction can never complete.
C16_AckBeforeExtraction ==
    \A k \in Calls :
        (inv[k].op = "restoreSessions" /\ ValidUpload(inv[k].file)) =>
            /\ inv[k].pc \in {"extracting", "extracted"} =>
                    /\ inv[k].result = "success"
                    /\ inv[k].steps = <<"ack">>
                    /\ restarts = inv[k].restartsAtReturn
            /\ inv[k].log.phase = "merged" =>
                    /\ inv[k].result = "success"
                    /\ inv[k].steps[1] = "ack"

\* The acknowledgment has been returned for a truncated archive, whose
\* extraction never completes: nothing was extracted, merged or restarted.
C16_Witness ==
    \E k \in Calls :
        /\ inv[k].file = TruncatedUpload
        /\ inv[k].result = "success"
        /\ inv[k].pc = "extracting"
        /\ restoreDir = [tokens |-> NoDir, userDataDir |-> NoDir]
        /\ restarts = 0

\* C17: while the archive of a backupSessions run is still reading the
\* staging directory, the directory is there as that run wrote it, and the
\* cleanup of every run whose archive was flushed finds the directory and
\* deletes it.
C17_StagingOwned ==
    \A k \in Calls :
        inv[k].op = "backupSessions" =>
            /\ (inv[k].pc = "archiving" /\ ~inv[k].archiveFailed) =>
                    backupFolder = inv[k].log.staged
            /\ ~(inv[k].pc = "threw" /\ HasStep(k, "flush"))

\* C18: the promise of backupSessions is never resolved: it is pending
\* when the archive has been streamed and the restart made, pending when
\* the executor threw after teardown, and rejected only after an error of
\* the archive writer or of the read stream.
C18_PromiseNeverResolved ==
    \A k \in Calls :
        inv[k].op = "backupSessions" =>
            /\ inv[k].promise \in {"none", "pending", "rejected"}
            /\ (inv[k].pc = "done" /\ inv[k].result = "streamed") =>
                    inv[k].promise = "pending"
            /\ (inv[k].pc = "threw" /\ ~inv[k].archiveFailed) =>
                    inv[k].promise = "pending"
            /\ inv[k].promise = "rejected" =>
                    \/ inv[k].archiveFailed
                    \/ /\ inv[k].pc = "done"
                       /\ inv[k].result = "error"
                       /\ ~HasStep(k, "stream")

\* A backup has streamed its archive and made the restart, and its promise
\* is still pending.
C18_Witness ==
    \E k \in Calls :
        /\ inv[k].op = "backupSessions"
        /\ inv[k].pc = "done"
        /\ HasStep(k, "restart")
        /\ inv[k].produced.state = "complete"
        /\ inv[k].promise = "pending"
        /\ restarts > inv[k].restartsAtReturn

\* C19: when a restoreSessions call has been acknowledged and a
\* deleteAllSessions call made after it has returned success, and no call
\* has been made since, the two stores are as the purge left them, no
\* restart has been made since the teardown of the purge returned, and the
\* registry has no entry that it had not then.
C19_PurgeIsFinal ==
    ( /\ calls = 2
      /\ inv[1].op = "restoreSessions"
      /\ inv[2].op = "deleteAllSessions"
      /\ inv[2].pc = "done"
      /\ inv[2].result = "success" ) =>
        /\ tokens = inv[2].log.postTokens
        /\ userData = inv[2].log.postUserData
        /\ restarts = inv[2].restartsAtReturn
        /\ {s \in Sessions : registry[s] # None} \subseteq inv[2].keysAtReturn

\* C20: every step of closeAllSessions changes the registry only by
\* removing identifiers that getAllTokens returned, and removes all of them
\* when it has the list; it asks to close only handles found under those
\* identifiers with a truthy status, and a browser process ends only by
\* such a request; no entry is added or replaced.
C20_OnlyEnumerated ==
    [][ /\ \A s \in Sessions :
              registry'[s] # registry[s] =>
                  /\ registry'[s] = None
                  /\ \E k \in Calls : s \in inv'[k].names
        /\ \A k \in Calls :
              (inv[k].pc = "getAllTokens" /\ inv'[k].pc = "grace") =>
                  /\ inv'[k].names = getAllTokens
                  /\ \A s \in inv'[k].names : registry'[s] = None
        /\ \A t \in closing' \ closing :
              /\ t.session \in inv'[t.inv].names
              /\ registry[t.session] # None
              /\ registry[t.session].status
              /\ registry[t.session].gen = t.gen
        /\ \A x \in running \ running' :
              \E t \in closing : x = <<t.session, t.gen>> ]_vars

\* A teardown has returned after asking an enumerated handle to close, and
\* a session that has no token file is still in the registry, its browser
\* running.
C20_Witness ==
    \E k \in Calls :
        /\ inv[k].torn
        /\ inv[k].closeRequested # {}
        /\ \E s \in Sessions \ inv[k].names :
                /\ registry[s] # None
                /\ registry[s].status
                /\ <<s, registry[s].gen>> \in running

====
